---- MODULE Spec2Model ----
(***************************************************************************)
(* A model of the InfluxDB mirror service (src/main.py): the single        *)
(* instance guard of main, the controller loop main_loop, one mirroring    *)
(* cycle perform_mirror (reachability probe, watermark search over the     *)
(* lookback windows, remote query, CSV parsing, local write) and wait.     *)
(*                                                                         *)
(* Python lists are 0-based, TLA+ sequences 1-based: every column index    *)
(* kept here is the Python index plus one, and 0 stands for a name that    *)
(* has not been bound yet (its use raises UnboundLocalError).              *)
(***************************************************************************)
EXTENDS Integers, Sequences, FiniteSets, TLC

\* ------------------------------------------------------------------ bounds
\* Longest row stream handed to the parser on its own.
MaxRows == 4
\* Most points the remote bucket holds at the start.
MaxPoints == 2
\* Processes that may be started.
NumProcs == 2

\* ------------------------------------------------------- python helpers
None == "<None>"

\* `x in resp` for a list of cells.
In(x, resp) == \E i \in 1..Len(resp) : resp[i] = x

\* list.index-like: the positions of x in resp.
Positions(x, resp) == {i \in 1..Len(resp) : resp[i] = x}

Max(S) == CHOOSE m \in S : \A n \in S : n <= m
Min(S) == CHOOSE m \in S : \A n \in S : m <= n

\* ------------------------------------------------------------- the parser
\* float(cell): the cells that parse as a floating point number, and the
\* number they parse to (written canonically); any other cell raises
\* ValueError and is kept as the string.
FloatOfCell ==
  [c \in {"42.5", "1", "1.0", "2", "3"} |->
     CASE c = "42.5" -> "42.5"
       [] c = "1"    -> "1.0"
       [] c = "1.0"  -> "1.0"
       [] c = "2"    -> "2.0"
       [] c = "3"    -> "3.0"]

\* try: val = float(resp[value_idx]) except ValueError: val = resp[value_idx]
Coerce(cell) ==
  IF cell \in DOMAIN FloatOfCell
    THEN [type |-> "float", v |-> FloatOfCell[cell]]
    ELSE [type |-> "str", v |-> cell]

WellKnown == {"_time", "_value", "_field", "_measurement"}

IsAnnotation(resp) ==
  In("#datatype", resp) \/ In("#group", resp) \/ In("#default", resp)

\* The column indices and tag map the header loop leaves behind: for each
\* well-known name the last column carrying it (an index already bound
\* stays when the header lacks the name), and custom_tags[header] = i for
\* every other column, a later column of the same name overwriting.
HeaderIndex(name, resp, old) ==
  IF Positions(name, resp) = {} THEN old ELSE Max(Positions(name, resp))

CustomTags(resp) ==
  [h \in {resp[i] : i \in 1..Len(resp)} \ WellKnown |-> Max(Positions(h, resp))]

\* The state of the parsing loop before its first row.
ParseStart(time_idx, value_idx, field_idx, measurement_idx) ==
  [need_headers |-> TRUE, custom_tags |-> <<>>, points |-> <<>>,
   time_idx |-> time_idx, value_idx |-> value_idx, field_idx |-> field_idx,
   measurement_idx |-> measurement_idx, raised |-> FALSE]

\* A data row can be read when every index it uses is bound and in range.
Readable(st, resp) ==
  /\ \A i \in {st.value_idx, st.measurement_idx, st.field_idx, st.time_idx} :
        i >= 1 /\ i <= Len(resp)
  /\ \A h \in DOMAIN st.custom_tags : st.custom_tags[h] <= Len(resp)

BuildPoint(st, resp) ==
  [measurement |-> resp[st.measurement_idx],
   field       |-> resp[st.field_idx],
   value       |-> Coerce(resp[st.value_idx]),
   time        |-> resp[st.time_idx],
   tags        |-> [h \in DOMAIN st.custom_tags |-> resp[st.custom_tags[h]]]]

\* ParseRow without the skip of the rows that repeat the header.
ParseRowKeepsRepeats(st, resp) ==
  IF st.raised THEN st
  ELSE IF IsAnnotation(resp) THEN st
  ELSE IF st.need_headers /\ In("_value", resp) THEN
    [st EXCEPT !.need_headers = FALSE,
               !.custom_tags = CustomTags(resp),
               !.time_idx = HeaderIndex("_time", resp, st.time_idx),
               !.value_idx = HeaderIndex("_value", resp, st.value_idx),
               !.field_idx = HeaderIndex("_field", resp, st.field_idx),
               !.measurement_idx =
                   HeaderIndex("_measurement", resp, st.measurement_idx)]
  ELSE IF st.need_headers = FALSE THEN
    IF Readable(st, resp)
      THEN [st EXCEPT !.points = Append(st.points, BuildPoint(st, resp))]
      ELSE [st EXCEPT !.raised = TRUE]
  ELSE st

\* ParseRow passing over a row it cannot read.
ParseRowSkipsShort(st, resp) ==
  IF st.raised THEN st
  ELSE IF IsAnnotation(resp) THEN st
  ELSE IF ~st.need_headers /\ In("result", resp) THEN st
  ELSE IF st.need_headers /\ In("_value", resp) THEN
    [st EXCEPT !.need_headers = FALSE,
               !.custom_tags = CustomTags(resp),
               !.time_idx = HeaderIndex("_time", resp, st.time_idx),
               !.value_idx = HeaderIndex("_value", resp, st.value_idx),
               !.field_idx = HeaderIndex("_field", resp, st.field_idx),
               !.measurement_idx =
                   HeaderIndex("_measurement", resp, st.measurement_idx)]
  ELSE IF st.need_headers = FALSE /\ Readable(st, resp)
    THEN [st EXCEPT !.points = Append(st.points, BuildPoint(st, resp))]
  ELSE st

\* One iteration of `for resp in data_csv_iterator`.
ParseRow(st, resp) ==
  IF st.raised THEN st
  ELSE IF IsAnnotation(resp) THEN st
  ELSE IF ~st.need_headers /\ In("result", resp) THEN st
  ELSE IF st.need_headers /\ In("_value", resp) THEN
    [st EXCEPT !.need_headers = FALSE,
               !.custom_tags = CustomTags(resp),
               !.time_idx = HeaderIndex("_time", resp, st.time_idx),
               !.value_idx = HeaderIndex("_value", resp, st.value_idx),
               !.field_idx = HeaderIndex("_field", resp, st.field_idx),
               !.measurement_idx =
                   HeaderIndex("_measurement", resp, st.measurement_idx)]
  ELSE IF st.need_headers = FALSE THEN
    IF Readable(st, resp)
      THEN [st EXCEPT !.points = Append(st.points, BuildPoint(st, resp))]
      ELSE [st EXCEPT !.raised = TRUE]
  ELSE st

\* The whole loop over a response.
RECURSIVE ParseRows(_, _)
ParseRows(st, rows) ==
  IF rows = <<>> THEN st ELSE ParseRows(ParseRow(st, Head(rows)), Tail(rows))

\* ------------------------------------------------------------ row streams
AnnotationRow == <<"#group", "false", "false", "false", "false", "true", "true", "true">>
DefaultRow    == <<"#default", "_result", "", "", "", "", "", "">>
HeaderRow     == <<"", "result", "table", "_time", "_value", "_field", "_measurement", "host">>
HeaderRowB    == <<"", "result", "table", "_value", "_time", "region", "_measurement", "_field">>
DataRowA      == <<"", "_result", "0", "5", "42.5", "f", "m", "h1">>
DataRowB      == <<"", "_result", "1", "6", "on", "g", "m", "h2">>
ResultCellRow == <<"", "_result", "1", "7", "1", "f", "m", "result">>
ShortRow      == <<"", "_result", "0">>
\* A header that names no field column.
HeaderRowC    == <<"", "result", "table", "_time", "_value", "_measurement", "host">>

RowPool ==
  {AnnotationRow, DefaultRow, HeaderRow, HeaderRowB, HeaderRowC, DataRowA,
   DataRowB, ResultCellRow, ShortRow}

RowStreams == UNION {[1..n -> RowPool] : n \in 0..MaxRows}

\* ------------------------------------------------------------ the settings
\* settings.yaml: the contents the file can have. REMOTE_IP is kept as its
\* characters, because perform_mirror slices it.
Configs ==
  << [BUCKETS |-> <<"b1", "b2">>, RECOVER_DATA_SINCE_DATE |-> "50",
      REFRESH_RATE |-> "00:00:10", REMOTE_IP |-> <<"r", ":", "8">>],
     [BUCKETS |-> <<"b2", "b1">>, RECOVER_DATA_SINCE_DATE |-> "90",
      REFRESH_RATE |-> "00:01:00", REMOTE_IP |-> <<"r", "h">>],
     [BUCKETS |-> <<"b1">>, RECOVER_DATA_SINCE_DATE |-> "50",
      REFRESH_RATE |-> "00:00:10", REMOTE_IP |-> <<"r", ":", "8">>] >>

ConfigIds == 1..Len(Configs)

Buckets == {"b1", "b2"}

\* ----------------------------------------------------------- the databases
\* Instants are minutes. Now is the instant the queries of a run are
\* evaluated at: a run is short against the lookback windows.
Now == 30000

flux_times == <<"-1m", "-1h", "-6h", "-12h", "-1d", "-7d", "-14d">>

\* The width of each lookback window in minutes.
FluxWidth == <<1, 60, 360, 720, 1440, 10080, 20160>>

\* The instants a stored point can carry: one older than the widest window
\* and two inside the one hour window.
Stamps == {100, 29950, 29970}

Hosts == {"h1", "h2"}

\* A stored point: its series (the host tag) and its instant.
DbPoints == [host : Hosts, time : Stamps]

\* An instant as the database prints it in a CSV cell, and as the query
\* language reads it back; 0 stands for a cell that is no instant.
TimeCell(t) == ToString(t)

\* Every instant of the model: the stored ones and the recovery dates.
Instants == Stamps \cup {50, 90}

TimeValue(cell) ==
  LET known == {t \in Instants : TimeCell(t) = cell}
  IN IF known = {} THEN 0 ELSE CHOOSE t \in known : TRUE

DbAnnotations ==
  << <<"#datatype", "string", "long", "dateTime:RFC3339", "dateTime:RFC3339",
       "dateTime:RFC3339", "double", "string", "string", "string">>,
     <<"#group", "false", "false", "true", "true", "false", "false", "true",
       "true", "true">>,
     <<"#default", "_result", "", "", "", "", "", "", "", "">> >>

DbHeader ==
  <<"", "result", "table", "_start", "_stop", "_time", "_value", "_field",
    "_measurement", "host">>

DbRow(table, start, pt) ==
  <<"", "_result", table, TimeCell(start), TimeCell(Now), TimeCell(pt.time),
    "1", "f", "m", pt.host>>

\* last(): the newest instant of a table.
KeepLast(S) == IF S = {} THEN {} ELSE {Max(S)}

\* The elements of a set of integers in increasing order.
RECURSIVE Sorted(_)
Sorted(S) == IF S = {} THEN <<>> ELSE <<Min(S)>> \o Sorted(S \ {Min(S)})

RECURSIVE Flatten(_)
Flatten(ss) == IF ss = <<>> THEN <<>> ELSE Head(ss) \o Flatten(Tail(ss))

HostSeq == <<"h1", "h2">>

TableNo(h) == IF h = "h1" THEN "0" ELSE "1"

\* What a range query yields: nothing for an empty result, else the
\* annotation rows, the header and the tables' rows, one table per series in
\* series order; with `last` only the newest row of each series is given.
CsvOf(db, start, last) ==
  LET inRange == {pt \in db : pt.time >= start /\ pt.time < Now}
      rowsOf(h) ==
        LET all == {pt.time : pt \in {q \in inRange : q.host = h}}
            ts == Sorted(IF last THEN KeepLast(all) ELSE all)
        IN [i \in 1..Len(ts) |-> DbRow(TableNo(h), start, [host |-> h, time |-> ts[i]])]
      body == Flatten([i \in 1..Len(HostSeq) |-> rowsOf(HostSeq[i])])
  IN IF body = <<>> THEN <<>> ELSE DbAnnotations \o <<DbHeader>> \o body

\* from(bucket) |> range(start: flux_time) |> sort(columns: ["_time"]) |> last()
LocalCsv(db, w) == CsvOf(db, Now - FluxWidth[w], TRUE)

\* from(bucket) |> range(start: time_stamp): the start is inclusive.
RemoteCsv(db, time_stamp) == CsvOf(db, TimeValue(time_stamp), FALSE)

\* The points a write stores: the series and instant of each.
Stored(points) ==
  {[host |-> points[i].tags["host"], time |-> TimeValue(points[i].time)] :
     i \in 1..Len(points)}

\* ------------------------------------------------------- responses at large
\* What a server can answer apart from the above: the rows a window's query
\* may give (nothing; a header and a row; a header and no row; a row and no
\* header; a header and a row cut short) ...
WindowRow == DbRow("0", Now - 60, [host |-> "h1", time |-> 29950])

ShortWindowRow == SubSeq(WindowRow, 1, 3)

WindowResponses ==
  { <<>>,
    DbAnnotations \o <<DbHeader, WindowRow>>,
    DbAnnotations \o <<DbHeader>>,
    <<WindowRow>>,
    DbAnnotations \o <<DbHeader, ShortWindowRow>> }

\* ... and the rows the remote query may give: well-formed tables of no, one
\* and two points, and tables with a row of a series that has no host tag,
\* which is one cell shorter than the header (after a full row, before one,
\* and ahead of the header).
RemoteRowA == DbRow("0", 50, [host |-> "h1", time |-> 29950])

RemoteRowB == DbRow("1", 50, [host |-> "h2", time |-> 29970])

ShortRemoteRow == SubSeq(RemoteRowB, 1, Len(DbHeader) - 1)

RemoteResponses ==
  { <<>>,
    DbAnnotations \o <<DbHeader, RemoteRowA>>,
    DbAnnotations \o <<DbHeader, RemoteRowA, RemoteRowB>>,
    DbAnnotations \o <<DbHeader, RemoteRowA, ShortRemoteRow>>,
    DbAnnotations \o <<DbHeader, ShortRemoteRow, RemoteRowA>>,
    <<ShortRemoteRow>> \o DbAnnotations \o <<DbHeader, RemoteRowA>> }

\* ------------------------------------------------------ the watermark search
\* ScanRows finding no header.
ScanRowsFindsNothing(st, rows) == st

\* The loop over one window's response (lines 183-193): the row after the
\* first row that holds a "_time" cell gives the time stamp; reading it
\* raises IndexError when the row is too short.
RECURSIVE ScanRows(_, _)
ScanRows(st, rows) ==
  IF rows = <<>> THEN st
  ELSE LET resp == Head(rows) IN
    IF st.got_data THEN
      IF st.time_idx <= Len(resp)
        THEN [st EXCEPT !.time_stamp = resp[st.time_idx]]
        ELSE [st EXCEPT !.raised = TRUE]
    ELSE IF In("_time", resp)
      THEN ScanRows([st EXCEPT !.time_idx = Min(Positions("_time", resp)),
                               !.got_data = TRUE], Tail(rows))
      ELSE ScanRows(st, Tail(rows))

\* Recover without the fallback.
RecoverKeepsNone(time_stamp, settings) == time_stamp

\* if not time_stamp: time_stamp = settings['RECOVER_DATA_SINCE_DATE']
Recover(time_stamp, settings) ==
  IF time_stamp = None \/ time_stamp = ""
    THEN settings.RECOVER_DATA_SINCE_DATE
    ELSE time_stamp

\* remote_ip[:remote_ip.find(':')]: find gives -1 when there is no colon,
\* and the slice then drops the last character.
PingHost(remote_ip) ==
  LET colons == Positions(":", remote_ip)
      port_index == IF colons = {} THEN -1 ELSE Min(colons) - 1
  IN IF port_index >= 0 THEN SubSeq(remote_ip, 1, port_index)
     ELSE SubSeq(remote_ip, 1, Len(remote_ip) - 1)

\* ------------------------------------------------------------- the state
VARIABLES
  isRunning,     \* the flag pickled in isRunning.pickle
  settingsYaml,  \* the contents of settings.yaml, an index into Configs
  localDB,       \* the local database: the points of each bucket
  remoteDB,      \* the remote database: the points of each bucket
  proc,          \* each process: where it is and its local names
  data_csv,      \* a response handed to the parser on its own
  parsed         \* what the parser made of data_csv

vars == <<isRunning, settingsYaml, localDB, remoteDB, proc, data_csv, parsed>>

Procs == 1..NumProcs

Args == {None, "forceOn", "other"}

\* A process that has not been started.
Fresh ==
  [pc |-> "idle", force_arg |-> None, is_running |-> FALSE,
   clients |-> 0,          \* the settings the clients were built from (main)
   settings |-> 0,         \* main_loop's settings; 0 is unbound
   handling |-> FALSE,     \* inside `except Exception`
   bucket_i |-> 0, flux_i |-> 0, got_data |-> FALSE, time_idx |-> 1,
   time_stamp |-> None, value_idx |-> 0, field_idx |-> 0,
   measurement_idx |-> 0, points |-> <<>>,
   ops |-> <<>>,           \* what the process has issued since its last wait ended
   answers |-> <<>>,       \* the responses its queries got since then
   flag_at_start |-> FALSE,\* the flag when the process was started
   passed |-> FALSE,       \* it has written the flag true (line 53)
   cleared |-> FALSE,      \* its cancellation handler has written the flag false
   after_unclean |-> FALSE,\* started after a run that passed the guard and ended
                           \* without clearing the flag, with no forced start since
   cancelled |-> FALSE,    \* a KeyboardInterrupt arrived inside main_loop
   failed |-> FALSE,       \* the current cycle raised
   fail_at |-> 0,          \* how much it had issued when it raised
   handler_raised |-> FALSE,\* a call raised inside a handler
   prev_failed |-> FALSE,  \* the cycle before this one raised
   synced |-> {}]          \* the buckets a sync of this process has completed

InMain == {"main", "read_flag", "test_flag", "set_flag", "main_settings", "log_started"}
InWait == {"wait_log", "sleep"}
InTry ==
  {"load_settings", "ping", "log_pinged", "log_unable", "log_bucket",
   "local_query", "remote_query", "write_points", "log_finished"} \cup InWait
InLoop == InTry \cup {"log_error", "clear_flag", "log_shutdown"}
Ended == {"refused", "returned", "crashed"}

\* The steps that call out of the process and so can raise.
CanRaise ==
  {"main_settings", "log_started", "load_settings", "log_pinged", "log_unable",
   "log_bucket", "local_query", "remote_query", "write_points", "log_finished",
   "wait_log", "log_error", "log_shutdown"}

Put(p, st) == proc' = [proc EXCEPT ![p] = st]

Did(st, op) == Append(st.ops, op)

Log(level, message) == <<"log", level, message>>

\* perform_mirror is left, by return or by an exception: its local names
\* are gone.
LeaveMirror(st) ==
  [st EXCEPT !.bucket_i = 0, !.flux_i = 0, !.got_data = FALSE, !.time_idx = 1,
             !.time_stamp = None, !.value_idx = 0, !.field_idx = 0,
             !.measurement_idx = 0, !.points = <<>>]

\* The bucket the for loop of perform_mirror is at.
BucketName(st) == Configs[st.settings].BUCKETS[st.bucket_i]

\* The server remote_client_query asks: the REMOTE_IP the client was built
\* with in main (lines 64-67); main_loop is handed the client and never
\* builds another.
RemoteUrl(st) == Configs[st.clients].REMOTE_IP

\* NextBucket stepping over a bucket.
NextBucketSkips(st) ==
  IF st.bucket_i + 1 < Len(Configs[st.settings].BUCKETS)
    THEN [st EXCEPT !.pc = "log_bucket", !.bucket_i = st.bucket_i + 2]
    ELSE [LeaveMirror(st) EXCEPT !.pc = "wait_log"]

\* The head of `for bucket_name in settings["BUCKETS"]`: the next bucket, or
\* the end of perform_mirror and on to wait.
NextBucket(st) ==
  IF st.bucket_i < Len(Configs[st.settings].BUCKETS)
    THEN [st EXCEPT !.pc = "log_bucket", !.bucket_i = st.bucket_i + 1]
    ELSE [LeaveMirror(st) EXCEPT !.pc = "wait_log"]

\* ------------------------------------------------------------------ main
\* python3 main.py [arg], in a terminal where no run is going on: a new
\* process, with nothing left of the one that ended there.
Start(p) ==
  /\ proc[p].pc \in Ended \cup {"idle"}
  /\ \A q \in Procs : q < p => proc[q].pc # "idle"
  /\ \E a \in Args :
       Put(p, [Fresh EXCEPT !.pc = "main", !.force_arg = a,
                 !.flag_at_start = isRunning,
                 !.after_unclean =
                    \/ proc[p].passed /\ ~proc[p].cleared
                    \/ proc[p].after_unclean /\ proc[p].force_arg # "forceOn"])
  /\ UNCHANGED <<isRunning, settingsYaml, localDB, remoteDB, data_csv, parsed>>

\* ForceReset taking no notice of the argument.
ForceResetIgnored(p) ==
  /\ proc[p].pc = "main"
  /\ Put(p, [proc[p] EXCEPT !.pc = "read_flag"])
  /\ UNCHANGED <<isRunning, settingsYaml, localDB, remoteDB, data_csv, parsed>>

\* Lines 36-39.
ForceReset(p) ==
  /\ proc[p].pc = "main"
  /\ IF proc[p].force_arg = "forceOn"
       THEN /\ isRunning' = FALSE
            /\ Put(p, [proc[p] EXCEPT !.pc = "read_flag",
                          !.ops = Did(proc[p], <<"flag", "write", "False">>)])
       ELSE /\ UNCHANGED isRunning
            /\ Put(p, [proc[p] EXCEPT !.pc = "read_flag"])
  /\ UNCHANGED <<settingsYaml, localDB, remoteDB, data_csv, parsed>>

\* Lines 42-43.
ReadFlag(p) ==
  /\ proc[p].pc = "read_flag"
  /\ Put(p, [proc[p] EXCEPT !.pc = "test_flag", !.is_running = isRunning])
  /\ UNCHANGED <<isRunning, settingsYaml, localDB, remoteDB, data_csv, parsed>>

\* TestFlag without the refusal.
TestFlagAlwaysProceeds(p) ==
  /\ proc[p].pc = "test_flag"
  /\ Put(p, [proc[p] EXCEPT !.pc = "set_flag"])
  /\ UNCHANGED <<isRunning, settingsYaml, localDB, remoteDB, data_csv, parsed>>

\* Lines 45-49.
TestFlag(p) ==
  /\ proc[p].pc = "test_flag"
  /\ Put(p, [proc[p] EXCEPT !.pc = IF proc[p].is_running THEN "refused" ELSE "set_flag"])
  /\ UNCHANGED <<isRunning, settingsYaml, localDB, remoteDB, data_csv, parsed>>

\* SetFlag going on without writing the flag.
SetFlagForgets(p) ==
  /\ proc[p].pc = "set_flag"
  /\ Put(p, [proc[p] EXCEPT !.pc = "main_settings", !.is_running = TRUE,
                !.passed = TRUE])
  /\ UNCHANGED <<isRunning, settingsYaml, localDB, remoteDB, data_csv, parsed>>

\* Lines 51-53.
SetFlag(p) ==
  /\ proc[p].pc = "set_flag"
  /\ isRunning' = TRUE
  /\ Put(p, [proc[p] EXCEPT !.pc = "main_settings", !.is_running = TRUE,
                !.passed = TRUE,
                !.ops = Did(proc[p], <<"flag", "write", "True">>)])
  /\ UNCHANGED <<settingsYaml, localDB, remoteDB, data_csv, parsed>>

\* Lines 56-67: the settings are loaded and the clients built from them.
MainSettings(p) ==
  /\ proc[p].pc = "main_settings"
  /\ Put(p, [proc[p] EXCEPT !.pc = "log_started", !.clients = settingsYaml])
  /\ UNCHANGED <<isRunning, settingsYaml, localDB, remoteDB, data_csv, parsed>>

\* Lines 69-70: the start is logged and main_loop entered.
LogStarted(p) ==
  /\ proc[p].pc = "log_started"
  /\ Put(p, [proc[p] EXCEPT !.pc = "load_settings",
                !.ops = Did(proc[p], Log("DEBUG", "Started mirror service."))])
  /\ UNCHANGED <<isRunning, settingsYaml, localDB, remoteDB, data_csv, parsed>>

\* ------------------------------------------------------------- main_loop
\* A cycle's exception reaches `except Exception` (line 104).
Fail(st) ==
  [LeaveMirror(st) EXCEPT !.pc = "log_error", !.handling = TRUE,
                          !.failed = TRUE, !.fail_at = Len(st.ops)]

\* An exception leaves main_loop and ends the process with a traceback.
Crash(st) == [LeaveMirror(st) EXCEPT !.pc = "crashed"]

\* Lines 83-86: a cycle begins with the settings read anew.
LoadSettings(p) ==
  /\ proc[p].pc = "load_settings"
  /\ Put(p, [proc[p] EXCEPT !.pc = "ping", !.settings = settingsYaml])
  /\ UNCHANGED <<isRunning, settingsYaml, localDB, remoteDB, data_csv, parsed>>

\* Lines 146-152: perform_mirror is entered and the remote host pinged.
Ping(p) ==
  /\ proc[p].pc = "ping"
  /\ \E response \in {0, 1} :
       Put(p, [proc[p] EXCEPT
                 !.pc = IF response = 0 THEN "log_pinged" ELSE "log_unable",
                 !.value_idx = 0, !.field_idx = 0, !.measurement_idx = 0,
                 !.ops = Did(proc[p],
                     <<"ping", PingHost(Configs[proc[p].settings].REMOTE_IP), response>>)])
  /\ UNCHANGED <<isRunning, settingsYaml, localDB, remoteDB, data_csv, parsed>>

\* Lines 153, 159: the ping is logged and the loop over the buckets begins.
LogPinged(p) ==
  /\ proc[p].pc = "log_pinged"
  /\ Put(p, NextBucket([proc[p] EXCEPT
                !.ops = Did(proc[p], Log("DEBUG", "Successfully pinged the remote database."))]))
  /\ UNCHANGED <<isRunning, settingsYaml, localDB, remoteDB, data_csv, parsed>>

\* LogUnable without the return.
LogUnableFallsThrough(p) ==
  /\ proc[p].pc = "log_unable"
  /\ Put(p, NextBucket([proc[p] EXCEPT
                !.ops = Did(proc[p], Log("DEBUG", "Unable to ping the remote database."))]))
  /\ UNCHANGED <<isRunning, settingsYaml, localDB, remoteDB, data_csv, parsed>>

\* Lines 155-156: the failed ping is logged and perform_mirror returns.
LogUnable(p) ==
  /\ proc[p].pc = "log_unable"
  /\ Put(p, [LeaveMirror(proc[p]) EXCEPT !.pc = "wait_log",
                !.ops = Did(proc[p], Log("DEBUG", "Unable to ping the remote database."))])
  /\ UNCHANGED <<isRunning, settingsYaml, localDB, remoteDB, data_csv, parsed>>

\* Lines 161-176: a bucket's sync begins.
LogBucket(p) ==
  /\ proc[p].pc = "log_bucket"
  /\ Put(p, [proc[p] EXCEPT !.pc = "local_query", !.flux_i = 1,
                !.got_data = FALSE, !.time_idx = 1, !.time_stamp = None,
                !.ops = Did(proc[p],
                    <<"log", "DEBUG", "Starting mirror of bucket", BucketName(proc[p])>>)])
  /\ UNCHANGED <<isRunning, settingsYaml, localDB, remoteDB, data_csv, parsed>>

\* Lines 177-201 on the rows a window's query gave: the rows are scanned;
\* the search ends with the first window that showed a "_time" header, or
\* with the widest, and the recovery date stands in for a missing time stamp.
LocalGot(p, rows) ==
  LET st == proc[p]
      sc == ScanRows([got_data |-> st.got_data, time_idx |-> st.time_idx,
                      time_stamp |-> st.time_stamp, raised |-> FALSE], rows)
      asked == [st EXCEPT
                  !.ops = Did(st, <<"query_local", BucketName(st), flux_times[st.flux_i]>>),
                  !.answers = Append(st.answers,
                                <<"local", BucketName(st), st.flux_i, rows>>)]
  IN Put(p,
       IF sc.raised THEN Fail(asked)
       ELSE IF sc.got_data \/ st.flux_i = Len(flux_times)
         THEN [asked EXCEPT !.pc = "remote_query", !.got_data = sc.got_data,
                  !.time_idx = sc.time_idx,
                  !.time_stamp = Recover(sc.time_stamp, Configs[st.settings])]
         ELSE [asked EXCEPT !.flux_i = st.flux_i + 1])

\* Lines 177-201: one lookback window is queried in the local database.
LocalQuery(p) ==
  /\ proc[p].pc = "local_query"
  /\ LocalGot(p, LocalCsv(localDB[BucketName(proc[p])], proc[p].flux_i))
  /\ UNCHANGED <<isRunning, settingsYaml, localDB, remoteDB, data_csv, parsed>>

\* Lines 177-201, the local server answering with any response.
LocalAnswer(p) ==
  /\ proc[p].pc = "local_query"
  /\ \E rows \in WindowResponses : LocalGot(p, rows)
  /\ UNCHANGED <<isRunning, settingsYaml, localDB, remoteDB, data_csv, parsed>>

\* Lines 205-247 on the rows the remote query gave: they are parsed into
\* points.
RemoteGot(p, rows) ==
  LET st == proc[p]
      ps == ParseRows(ParseStart(st.time_idx, st.value_idx, st.field_idx,
                                 st.measurement_idx), rows)
      asked == [st EXCEPT
                  !.ops = Did(st, <<"query_remote", BucketName(st), st.time_stamp>>),
                  !.answers = Append(st.answers, <<"remote", BucketName(st), rows>>)]
  IN Put(p,
       IF ps.raised THEN Fail(asked)
       ELSE [asked EXCEPT !.pc = "write_points", !.points = ps.points,
                !.time_idx = ps.time_idx, !.value_idx = ps.value_idx,
                !.field_idx = ps.field_idx,
                !.measurement_idx = ps.measurement_idx])

\* Lines 205-247: the remote data since the time stamp is asked for; a time
\* stamp that is no instant is refused by the server.
RemoteQuery(p) ==
  /\ proc[p].pc = "remote_query"
  /\ IF TimeValue(proc[p].time_stamp) = 0
       THEN Put(p, Fail([proc[p] EXCEPT !.ops = Did(proc[p],
                 <<"query_remote", BucketName(proc[p]), proc[p].time_stamp>>)]))
       ELSE RemoteGot(p, RemoteCsv(remoteDB[BucketName(proc[p])], proc[p].time_stamp))
  /\ UNCHANGED <<isRunning, settingsYaml, localDB, remoteDB, data_csv, parsed>>

\* Lines 205-247, the remote server answering with any response.
RemoteAnswer(p) ==
  /\ proc[p].pc = "remote_query"
  /\ \E rows \in RemoteResponses : RemoteGot(p, rows)
  /\ UNCHANGED <<isRunning, settingsYaml, localDB, remoteDB, data_csv, parsed>>

\* WritePoints making no call for an empty list of points.
WritePointsSkipsEmpty(p) ==
  /\ proc[p].pc = "write_points"
  /\ LET st == proc[p] IN
       /\ localDB' = [localDB EXCEPT ![BucketName(st)] = @ \cup Stored(st.points)]
       /\ Put(p, [st EXCEPT !.pc = "log_finished",
                     !.ops = IF st.points = <<>> THEN st.ops
                             ELSE Did(st, <<"write", BucketName(st), Len(st.points)>>)])
  /\ UNCHANGED <<isRunning, settingsYaml, remoteDB, data_csv, parsed>>

\* Line 251: all points go to the local bucket in one write.
WritePoints(p) ==
  /\ proc[p].pc = "write_points"
  /\ LET st == proc[p] IN
       /\ localDB' = [localDB EXCEPT ![BucketName(st)] = @ \cup Stored(st.points)]
       /\ Put(p, [st EXCEPT !.pc = "log_finished",
                     !.ops = Did(st, <<"write", BucketName(st), Len(st.points)>>)])
  /\ UNCHANGED <<isRunning, settingsYaml, remoteDB, data_csv, parsed>>

\* Lines 252-253, 159: the count is logged and the next bucket taken up.
LogFinished(p) ==
  /\ proc[p].pc = "log_finished"
  /\ LET st == proc[p] IN
       Put(p, NextBucket([st EXCEPT
                !.synced = st.synced \cup {BucketName(st)}, !.points = <<>>,
                !.ops = Did(st, <<"log", "DEBUG", "Finished mirroring",
                                  Len(st.points), BucketName(st)>>)]))
  /\ UNCHANGED <<isRunning, settingsYaml, localDB, remoteDB, data_csv, parsed>>

\* Lines 258-261: wait announces itself.
WaitLog(p) ==
  /\ proc[p].pc = "wait_log"
  /\ Put(p, [proc[p] EXCEPT !.pc = "sleep",
                !.ops = Did(proc[p], <<"log", "DEBUG", "Waiting for",
                                       Configs[proc[p].settings].REFRESH_RATE>>)])
  /\ UNCHANGED <<isRunning, settingsYaml, localDB, remoteDB, data_csv, parsed>>

\* Lines 262-271 and 76: the refresh interval passes and the loop goes round.
Sleep(p) ==
  /\ proc[p].pc = "sleep"
  /\ Put(p, [proc[p] EXCEPT !.pc = "load_settings", !.handling = FALSE,
                !.ops = <<>>, !.answers = <<>>,
                !.prev_failed = proc[p].failed, !.failed = FALSE,
                !.fail_at = 0])
  /\ UNCHANGED <<isRunning, settingsYaml, localDB, remoteDB, data_csv, parsed>>

\* LogError clearing the flag as the cancellation handler does.
LogErrorClearsFlag(p) ==
  /\ proc[p].pc = "log_error"
  /\ isRunning' = FALSE
  /\ Put(p, IF proc[p].settings = 0 THEN Crash(proc[p])
            ELSE [proc[p] EXCEPT !.pc = "wait_log",
                     !.ops = Did(proc[p], Log("ERROR", "Python error occured"))])
  /\ UNCHANGED <<settingsYaml, localDB, remoteDB, data_csv, parsed>>

\* LogError without the wait of line 110.
LogErrorNoWait(p) ==
  /\ proc[p].pc = "log_error"
  /\ Put(p, IF proc[p].settings = 0 THEN Crash(proc[p])
            ELSE [proc[p] EXCEPT !.pc = "load_settings", !.handling = FALSE,
                     !.ops = Did(proc[p], Log("ERROR", "Python error occured"))])
  /\ UNCHANGED <<isRunning, settingsYaml, localDB, remoteDB, data_csv, parsed>>

\* Lines 104-110: the cycle's exception is logged; main_loop's own
\* `settings` is read, which no cycle has bound when the first load failed.
LogError(p) ==
  /\ proc[p].pc = "log_error"
  /\ Put(p, IF proc[p].settings = 0 THEN Crash(proc[p])
            ELSE [proc[p] EXCEPT !.pc = "wait_log",
                     !.ops = Did(proc[p], Log("ERROR", "Python error occured"))])
  /\ UNCHANGED <<isRunning, settingsYaml, localDB, remoteDB, data_csv, parsed>>

\* Lines 93-96: the flag is cleared.
ClearFlag(p) ==
  /\ proc[p].pc = "clear_flag"
  /\ isRunning' = FALSE
  /\ Put(p, [proc[p] EXCEPT !.pc = "log_shutdown", !.cleared = TRUE,
                !.ops = Did(proc[p], <<"flag", "write", "False">>)])
  /\ UNCHANGED <<settingsYaml, localDB, remoteDB, data_csv, parsed>>

\* Lines 98-102: the shutdown is logged and main_loop returns.
LogShutdown(p) ==
  /\ proc[p].pc = "log_shutdown"
  /\ Put(p, IF proc[p].settings = 0 THEN Crash(proc[p])
            ELSE [proc[p] EXCEPT !.pc = "returned",
                     !.ops = Did(proc[p], Log("DEBUG", "Mirror service shutdown manually."))])
  /\ UNCHANGED <<isRunning, settingsYaml, localDB, remoteDB, data_csv, parsed>>

\* ------------------------------------------------------- the environment
\* The call the process is at raises (a file that cannot be read, a
\* database that does not answer): outside main_loop and inside a handler
\* nothing catches it.
Raise(p) ==
  /\ proc[p].pc \in CanRaise
  /\ Put(p, IF proc[p].pc \in InTry /\ ~proc[p].handling
              THEN Fail(proc[p])
              ELSE [Crash(proc[p]) EXCEPT !.handler_raised = proc[p].pc \in InLoop])
  /\ UNCHANGED <<isRunning, settingsYaml, localDB, remoteDB, data_csv, parsed>>

\* ctrl-c: `except KeyboardInterrupt` (line 93) catches it in the try body
\* only; in main and inside either handler it ends the process.
Interrupt(p) ==
  /\ proc[p].pc \in InMain \cup InLoop
  /\ Put(p, IF proc[p].pc \in InTry /\ ~proc[p].handling
              THEN [LeaveMirror(proc[p]) EXCEPT !.pc = "clear_flag", !.cancelled = TRUE]
              ELSE [Crash(proc[p]) EXCEPT !.cancelled = proc[p].pc \in InLoop])
  /\ UNCHANGED <<isRunning, settingsYaml, localDB, remoteDB, data_csv, parsed>>

\* settings.yaml is edited while the service runs.
EditSettings ==
  /\ \E p \in Procs : proc[p].pc \in InMain \cup InLoop
  /\ settingsYaml' \in ConfigIds \ {settingsYaml}
  /\ UNCHANGED <<isRunning, localDB, remoteDB, proc, data_csv, parsed>>

\* ------------------------------------------------------ the specifications
NoPoints == [b \in Buckets |-> {}]

\* The terminal the service is run from.
Service == 1

\* The service is started, and started again after it has ended; calls
\* raise, ctrl-c arrives and the settings are edited at any time.
Init ==
  /\ isRunning \in BOOLEAN
  /\ settingsYaml \in {1, 2}
  /\ localDB = NoPoints
  /\ remoteDB = [NoPoints EXCEPT !["b1"] = {[host |-> "h1", time |-> 29950]}]
  /\ proc = [p \in Procs |-> Fresh]
  /\ data_csv = <<>>
  /\ parsed = <<>>

Step(p) ==
  \/ Start(p) \/ ForceReset(p) \/ ReadFlag(p) \/ TestFlag(p)
  \/ SetFlag(p) \/ MainSettings(p) \/ LogStarted(p)
  \/ LoadSettings(p) \/ Ping(p) \/ LogPinged(p) \/ LogUnable(p)
  \/ LogBucket(p) \/ LocalQuery(p) \/ RemoteQuery(p) \/ WritePoints(p)
  \/ LogFinished(p) \/ WaitLog(p) \/ Sleep(p) \/ LogError(p)
  \/ ClearFlag(p) \/ LogShutdown(p) \/ Raise(p) \/ Interrupt(p)

Next == Step(Service) \/ EditSettings

Spec == Init /\ [][Next]_vars

\* Processes are started at any time, side by side; each goes as far as the
\* top of its first cycle, and ctrl-c arrives at any time.
InitRace ==
  /\ isRunning \in BOOLEAN
  /\ settingsYaml = 1
  /\ localDB = NoPoints
  /\ remoteDB = NoPoints
  /\ proc = [p \in Procs |-> Fresh]
  /\ data_csv = <<>>
  /\ parsed = <<>>

NextRace ==
  \E p \in Procs :
    \/ Start(p) \/ ForceReset(p) \/ ReadFlag(p) \/ TestFlag(p) \/ SetFlag(p)
    \/ MainSettings(p) \/ LogStarted(p) \/ LoadSettings(p) \/ Interrupt(p)
    \/ ClearFlag(p) \/ LogShutdown(p)

SpecRace == InitRace /\ [][NextRace]_vars

\* Processes are started at any time, none with "forceOn", and each runs
\* its read, test and write of the flag (lines 42-53) with no such step of
\* another process in between; calls raise and ctrl-c arrives at any time.
\* Each goes as far as the ping of its first cycle, where it stays: no step
\* of a cycle writes the flag.
MidGuard == {"test_flag", "set_flag"}

Alone(p) == \A q \in Procs \ {p} : proc[q].pc \notin MidGuard

NextAtomic ==
  \E p \in Procs :
    \/ Start(p) /\ proc'[p].force_arg # "forceOn"
    \/ ForceReset(p)
    \/ Alone(p) /\ ReadFlag(p)
    \/ Alone(p) /\ TestFlag(p)
    \/ Alone(p) /\ SetFlag(p)
    \/ MainSettings(p) \/ LogStarted(p) \/ LoadSettings(p)
    \/ LogError(p)
    \/ Raise(p) \/ Interrupt(p) \/ ClearFlag(p) \/ LogShutdown(p)

SpecAtomic == InitRace /\ [][NextAtomic]_vars

\* The sets of at most n stored points.
UpTo(n) == {S \in SUBSET DbPoints : Cardinality(S) <= n}

\* One bucket is mirrored cycle after cycle, nothing raises and nobody
\* interrupts; the local and the remote bucket start with any contents and
\* the remote one gets no new data.
InitSync ==
  /\ isRunning = FALSE
  /\ settingsYaml \in {2, 3}
  /\ \E l \in UpTo(MaxPoints) : localDB = [NoPoints EXCEPT !["b1"] = l]
  /\ \E r \in UpTo(MaxPoints) : remoteDB = [NoPoints EXCEPT !["b1"] = r]
  /\ proc = [p \in Procs |-> Fresh]
  /\ data_csv = <<>>
  /\ parsed = <<>>

NextSync ==
  \/ Start(Service) \/ ForceReset(Service) \/ ReadFlag(Service)
  \/ TestFlag(Service) \/ SetFlag(Service) \/ MainSettings(Service)
  \/ LogStarted(Service) \/ LoadSettings(Service) \/ Ping(Service)
  \/ LogPinged(Service) \/ LogUnable(Service) \/ LogBucket(Service)
  \/ LocalQuery(Service) \/ RemoteQuery(Service) \/ WritePoints(Service)
  \/ LogFinished(Service) \/ WaitLog(Service) \/ Sleep(Service)

SpecSync == InitSync /\ [][NextSync]_vars

\* The service runs against servers that answer each query with any
\* response; no other call raises and nobody interrupts.
InitResp ==
  /\ isRunning = FALSE
  /\ settingsYaml = 3
  /\ localDB = NoPoints
  /\ remoteDB = NoPoints
  /\ proc = [p \in Procs |-> Fresh]
  /\ data_csv = <<>>
  /\ parsed = <<>>

NextResp ==
  \/ Start(Service) \/ ForceReset(Service) \/ ReadFlag(Service)
  \/ TestFlag(Service) \/ SetFlag(Service) \/ MainSettings(Service)
  \/ LogStarted(Service) \/ LoadSettings(Service) \/ Ping(Service)
  \/ LogPinged(Service) \/ LogUnable(Service) \/ LogBucket(Service)
  \/ LocalAnswer(Service) \/ RemoteAnswer(Service) \/ WritePoints(Service)
  \/ LogFinished(Service) \/ WaitLog(Service) \/ Sleep(Service)
  \/ LogError(Service)

SpecResp == InitResp /\ [][NextResp]_vars

\* A response is handed to the parser on its own.
InitParse ==
  /\ data_csv \in RowStreams
  /\ parsed = <<>>
  /\ isRunning = FALSE
  /\ settingsYaml = 1
  /\ localDB = NoPoints
  /\ remoteDB = NoPoints
  /\ proc = [p \in Procs |-> Fresh]

\* perform_mirror's parsing loop applied to a response, entered with
\* time_idx as the watermark search left it (0 in Python) and the other
\* indices unbound.
Parse ==
  /\ parsed = <<>>
  /\ parsed' = <<ParseRows(ParseStart(1, 0, 0, 0), data_csv)>>
  /\ UNCHANGED <<data_csv, isRunning, settingsYaml, localDB, remoteDB, proc>>

SpecParse == InitParse /\ [][Parse]_vars

\* ------------------------------------------------------------ what is issued
IsQuery(op) == op[1] \in {"query_local", "query_remote"}
IsWrite(op) == op[1] = "write"
IsBucketStart(op) == op[1] = "log" /\ op[3] = "Starting mirror of bucket"
IsErrorLog(op) == op[1] = "log" /\ op[2] = "ERROR"
UnableLog == Log("DEBUG", "Unable to ping the remote database.")
ShutdownLog == Log("DEBUG", "Mirror service shutdown manually.")

\* The bucket an operation is about, "" for one that is about none.
BucketOf(op) ==
  IF IsQuery(op) \/ IsWrite(op) THEN op[2]
  ELSE IF IsBucketStart(op) THEN op[4]
  ELSE IF op[1] = "log" /\ op[3] = "Finished mirroring" THEN op[5]
  ELSE ""

\* The buckets whose sync has been begun, in the order they were begun.
RECURSIVE Begun(_)
Begun(ops) ==
  IF ops = <<>> THEN <<>>
  ELSE IF IsBucketStart(Head(ops)) THEN <<Head(ops)[4]>> \o Begun(Tail(ops))
  ELSE Begun(Tail(ops))

\* The buckets the operations are about, one entry per run of operations.
RECURSIVE BucketRuns(_)
BucketRuns(ops) ==
  IF ops = <<>> THEN <<>>
  ELSE LET b == BucketOf(Head(ops))
           rest == BucketRuns(Tail(ops))
       IN IF b = "" THEN rest
          ELSE IF rest # <<>> /\ Head(rest) = b THEN rest
          ELSE <<b>> \o rest

IsPrefix(a, b) == Len(a) <= Len(b) /\ SubSeq(b, 1, Len(a)) = a

\* ------------------------------------------------------------------ claims

\* C1: of the processes sharing the flag file and started without the force
\* argument, at most one is inside main_loop at a time, however their
\* startup steps interleave.
C1_AtMostOneInLoop ==
  (\A p \in Procs : proc[p].force_arg # "forceOn")
    => Cardinality({p \in Procs : proc[p].pc \in InLoop}) <= 1

\* C2: a process started while the flag is true, without the force argument,
\* issues no query, no write and no log event, leaves the flag as it is and
\* never gets past the test of the flag (it returns; ctrl-c may end it
\* before).
C2_RefusedStartHasNoEffect ==
  \A p \in Procs :
    (proc[p].pc # "idle" /\ proc[p].flag_at_start /\ proc[p].force_arg # "forceOn")
      => /\ proc[p].pc \in {"main", "read_flag", "test_flag", "refused", "crashed"}
         /\ proc[p].ops = <<>>
         /\ isRunning

C2_Witness ==
  /\ proc[Service].pc = "refused"
  /\ proc[Service].force_arg = "other"
  /\ proc[Service].flag_at_start

\* C3: a ctrl-c that arrives while main_loop runs always ends with the
\* flag false, the shutdown logged and main_loop returning.
C3_CancelAlwaysShutsDownCleanly ==
  \A p \in Procs :
    (proc[p].cancelled /\ proc[p].pc \in Ended)
      => /\ proc[p].pc = "returned"
         /\ ~isRunning
         /\ In(ShutdownLog, proc[p].ops)

\* C4: main_loop never ends because a cycle raised: the error is logged, the
\* wait done and the next cycle begun. (An exit caused by ctrl-c, or by a
\* further call raising inside the handler, is not held against the claim.)
C4_LoopSurvivesCycleFailure ==
  \A p \in Procs :
    (proc[p].pc = "crashed" /\ proc[p].failed)
      => (proc[p].cancelled \/ proc[p].handler_raised)

\* C5: in a cycle the buckets are synced one after another in the order of
\* the configured list, beginning with the first, also in the cycle after a
\* failed one; once a sync has raised, nothing more is asked or written for
\* any bucket in that cycle; and a cycle that pinged and did not raise has
\* begun every configured bucket by the time it waits.
C5_BucketsInOrderAndAbortOnFailure ==
  \A p \in Procs :
    LET st == proc[p] IN
    (st.pc \in InLoop /\ st.settings # 0) =>
      /\ BucketRuns(st.ops) = Begun(st.ops)
      /\ IsPrefix(Begun(st.ops), Configs[st.settings].BUCKETS)
      /\ st.failed =>
           \A i \in (st.fail_at + 1)..Len(st.ops) : BucketOf(st.ops[i]) = ""
      /\ (st.pc \in InWait /\ ~st.failed
            /\ In(Log("DEBUG", "Successfully pinged the remote database."), st.ops))
           => Begun(st.ops) = Configs[st.settings].BUCKETS

C5_Witness ==
  LET st == proc[Service] IN
  /\ st.pc = "wait_log" /\ st.prev_failed /\ ~st.failed
  /\ st.settings # 0
  /\ Begun(st.ops) = Configs[st.settings].BUCKETS
  /\ Len(Begun(st.ops)) = 2

\* C6: the second of two syncs of a bucket, with no new remote data in
\* between, writes no point.
C6_SecondSyncWritesNothing ==
  \A p \in Procs :
    (proc[p].pc = "log_finished" /\ BucketName(proc[p]) \in proc[p].synced)
      => Len(proc[p].points) = 0

\* C7: when the newest local point of a bucket lies inside the 14 day window,
\* the remote query asks for the data since exactly that point's instant.
C7_SinceIsLatestLocal ==
  \A p \in Procs :
    LET st == proc[p] IN
    st.pc = "remote_query" =>
      LET times == {pt.time : pt \in localDB[BucketName(st)]} IN
      (times # {} /\ Max(times) >= Now - FluxWidth[Len(FluxWidth)])
        => st.time_stamp = TimeCell(Max(times))

\* C8: when all seven lookback windows come back without a row, the remote
\* query asks for the data since the configured recovery date.
C8_EmptyWindowsGiveRecoveryDate ==
  \A p \in Procs :
    LET st == proc[p] IN
    (st.pc = "remote_query"
       /\ \A w \in 1..Len(flux_times) : LocalCsv(localDB[BucketName(st)], w) = <<>>)
      => st.time_stamp = Configs[st.settings].RECOVER_DATA_SINCE_DATE

C8_Witness ==
  LET st == proc[Service] IN
  /\ st.pc = "remote_query"
  /\ localDB[BucketName(st)] # {}
  /\ \A w \in 1..Len(flux_times) :
       /\ LocalCsv(localDB[BucketName(st)], w) = <<>>
       /\ In(<<"query_local", BucketName(st), flux_times[w]>>, st.ops)
  /\ st.time_stamp = "90"

\* C9: a cycle whose ping failed asks and writes nothing for any bucket; when
\* its log call goes through and nothing else raises or interrupts, it has
\* logged the failed ping at DEBUG, logs no ERROR and goes on to the wait.
C9_UnreachableSkipsCycle ==
  \A p \in Procs :
    LET st == proc[p] IN
    (\E i \in 1..Len(st.ops) : st.ops[i][1] = "ping" /\ st.ops[i][3] # 0) =>
      /\ \A i \in 1..Len(st.ops) :
           ~IsQuery(st.ops[i]) /\ ~IsWrite(st.ops[i]) /\ ~IsBucketStart(st.ops[i])
      /\ (~st.failed /\ st.pc \in InTry) =>
           /\ st.pc \in {"log_unable"} \cup InWait
           /\ st.pc \in InWait => In(UnableLog, st.ops)
           /\ \A i \in 1..Len(st.ops) : ~IsErrorLog(st.ops[i])

C9_Witness ==
  LET st == proc[Service] IN
  /\ st.pc = "sleep" /\ ~st.failed
  /\ In(UnableLog, st.ops)
  /\ Len(Configs[st.settings].BUCKETS) = 2

\* C10: the points parsed from a response are, in row order, the rows after
\* the first header (the first row without an annotation marker that holds
\* a "_value" cell) that hold neither an annotation marker nor a "result"
\* cell, each with one tag per header column that is not well known, taken
\* from the row's own cell; no other row gives a point. (Parsing raises, and
\* hands on no point, exactly when there is such a row and it is shorter than
\* the header or the header names no field or measurement column.)
HeaderAt(rows) ==
  LET hs == {i \in 1..Len(rows) : ~IsAnnotation(rows[i]) /\ In("_value", rows[i])}
  IN IF hs = {} THEN 0 ELSE Min(hs)

DataRowsOf(rows) ==
  IF HeaderAt(rows) = 0 THEN {}
  ELSE {i \in (HeaderAt(rows) + 1)..Len(rows) :
          ~IsAnnotation(rows[i]) /\ ~In("result", rows[i])}

Column(name, header) == CHOOSE i \in 1..Len(header) : header[i] = name

PointOfRow(header, row) ==
  [measurement |-> row[Column("_measurement", header)],
   field       |-> row[Column("_field", header)],
   value       |-> Coerce(row[Column("_value", header)]),
   time        |-> row[Column("_time", header)],
   tags        |-> [h \in {header[i] : i \in 1..Len(header)} \ WellKnown |->
                      row[Column(h, header)]]]

C10_PointsAreTheDataRows ==
  \A k \in 1..Len(parsed) :
    LET rows == data_csv
        at == Sorted(DataRowsOf(rows))
        short == {i \in DataRowsOf(rows) : Len(rows[i]) < Len(rows[HeaderAt(rows)])}
        unbound == at # <<>> /\ \E name \in {"_field", "_measurement"} :
                                  ~In(name, rows[HeaderAt(rows)])
    IN IF parsed[k].raised THEN short # {} \/ unbound
       ELSE /\ short = {} /\ ~unbound
            /\ Len(parsed[k].points) = Len(at)
            /\ \A n \in 1..Len(at) :
                 parsed[k].points[n] = PointOfRow(rows[HeaderAt(rows)], rows[at[n]])

C10_Witness ==
  /\ Len(parsed) = 1
  /\ data_csv = <<AnnotationRow, HeaderRow, HeaderRowB, DataRowB>>
  /\ Len(parsed[1].points) = 1
  /\ parsed[1].points[1].tags["host"] = "h2"


\* C11: when the remote response of a bucket holds a data row shorter than
\* the header, the cycle fails there: no write is issued for the bucket in
\* that cycle, the failure is handed to the handler of main_loop, and by the
\* time the cycle waits (the handler's log call going through) an ERROR
\* event has been logged.
ShortRows(rows) ==
  {i \in DataRowsOf(rows) : Len(rows[i]) < Len(rows[HeaderAt(rows)])}

C11_ShortRowFailsTheCycle ==
  \A p \in Procs :
    LET st == proc[p] IN
    \A k \in 1..Len(st.answers) :
      (st.answers[k][1] = "remote" /\ ShortRows(st.answers[k][3]) # {}) =>
        /\ st.failed
        /\ st.pc \in {"log_error"} \cup InWait
        /\ \A i \in 1..Len(st.ops) :
             ~(IsWrite(st.ops[i]) /\ st.ops[i][2] = st.answers[k][2])
        /\ st.pc \in InWait => \E i \in 1..Len(st.ops) : IsErrorLog(st.ops[i])

C11_Witness ==
  LET st == proc[Service] IN
  /\ st.pc = "sleep" /\ st.failed
  /\ In(<<"remote", "b1", DbAnnotations \o <<DbHeader, RemoteRowA, ShortRemoteRow>> >>,
        st.answers)
  /\ In(Log("ERROR", "Python error occured"), st.ops)
  /\ \A i \in 1..Len(st.ops) : ~IsWrite(st.ops[i])


\* C12: every configuration value a cycle uses is the one settings.yaml
\* held when the cycle began: in particular the remote server a cycle
\* queries is the REMOTE_IP of the settings the cycle loaded.
C12_CycleUsesItsOwnSettings ==
  \A p \in Procs :
    LET st == proc[p] IN
    st.pc = "remote_query" => RemoteUrl(st) = Configs[st.settings].REMOTE_IP


\* C13: a start with "forceOn" is never refused, whatever the flag was; a
\* start with no or another argument is refused exactly when the flag was
\* true; a process that has passed the guard finds the flag true from then
\* on, and leaves it true when it ends by any path but the cancellation
\* handler; so every start without "forceOn" that follows such an end (with
\* no forced start in between) finds the flag true and does not pass the
\* guard. (Starts follow one another; a forced start may still end in main,
\* by ctrl-c or an unreadable file, before it reaches the loop.)
C13_ForceAndGuard ==
  \A p \in Procs :
    LET st == proc[p] IN
    st.pc # "idle" =>
      /\ st.force_arg = "forceOn" => st.pc # "refused"
      /\ st.pc = "refused" => st.flag_at_start
      /\ (st.passed /\ st.force_arg # "forceOn") => ~st.flag_at_start
      /\ (st.passed /\ ~st.cleared) => isRunning
      /\ (st.after_unclean /\ st.force_arg # "forceOn")
           => st.flag_at_start /\ ~st.passed /\ isRunning

C13_Witness ==
  LET st == proc[Service] IN
  /\ st.force_arg = "forceOn" /\ st.flag_at_start /\ st.after_unclean
  /\ st.pc = "ping" /\ isRunning


\* C14: the lookback windows of a bucket are asked in the order of
\* flux_times from the first; once a window's response has held a row with
\* a "_time" cell no wider window is asked, so the number of local queries is
\* the position of the first such window; and the search that comes to the
\* remote query without such a row has asked all seven.
RECURSIVE Asked(_, _)
Asked(ops, b) ==
  IF ops = <<>> THEN <<>>
  ELSE IF Head(ops)[1] = "query_local" /\ Head(ops)[2] = b
    THEN <<Head(ops)[3]>> \o Asked(Tail(ops), b)
    ELSE Asked(Tail(ops), b)

HasTime(rows) == \E i \in 1..Len(rows) : In("_time", rows[i])

\* The windows of bucket b whose response held a "_time" row.
Found(st, b) ==
  {st.answers[k][3] : k \in {j \in 1..Len(st.answers) :
       /\ st.answers[j][1] = "local" /\ st.answers[j][2] = b
       /\ HasTime(st.answers[j][4])}}

C14_WindowsInOrderUntilFound ==
  \A p \in Procs : \A b \in Buckets :
    LET st == proc[p] IN
    /\ IsPrefix(Asked(st.ops, b), flux_times)
    /\ Found(st, b) # {} => Len(Asked(st.ops, b)) = Min(Found(st, b))
    /\ (st.pc = "remote_query" /\ BucketName(st) = b /\ Found(st, b) = {})
         => Asked(st.ops, b) = flux_times

C14_Witness ==
  LET st == proc[Service] IN
  /\ st.pc = "remote_query"
  /\ Asked(st.ops, "b1") = <<"-1m", "-1h", "-6h">>
  /\ Found(st, "b1") = {3}
  /\ In(<<"local", "b1", 1, <<>> >>, st.answers)
  /\ In(<<"local", "b1", 2, <<WindowRow>> >>, st.answers)
  /\ st.time_stamp = TimeCell(29950)


\* C15: a window's response that is malformed (rows with no "_time" header
\* before them, a header with no row after it, or a row after the header
\* that is shorter than the header's "_time" position) never raises out of the
\* watermark search, and the search goes on to the next wider window.
FirstHeader(rows) == Min({i \in 1..Len(rows) : In("_time", rows[i])})

Malformed(rows) ==
  /\ rows # <<>>
  /\ \/ ~HasTime(rows)
     \/ /\ HasTime(rows)
        /\ \/ FirstHeader(rows) = Len(rows)
           \/ Len(rows[FirstHeader(rows) + 1])
                 < Min(Positions("_time", rows[FirstHeader(rows)]))

C15_MalformedWindowIsEmptyWindow ==
  \A p \in Procs :
    LET st == proc[p] IN
    \A k \in 1..Len(st.answers) :
      (st.answers[k][1] = "local" /\ Malformed(st.answers[k][4])) =>
        LET b == st.answers[k][2]
            w == st.answers[k][3]
        IN /\ ~(st.failed /\ st.fail_at > 0 /\ st.ops[st.fail_at][1] = "query_local")
           /\ w < Len(flux_times) =>
                \/ In(<<"query_local", b, flux_times[w + 1]>>, st.ops)
                \/ st.pc = "local_query" /\ st.flux_i = w + 1


\* C16: the host a cycle pings is the configured REMOTE_IP without its port
\* suffix (the colon and what follows it), and the configured REMOTE_IP as
\* it stands when it has none; a cycle pings once.
StripPort(remote_ip) ==
  IF Positions(":", remote_ip) = {} THEN remote_ip
  ELSE SubSeq(remote_ip, 1, Max(Positions(":", remote_ip)) - 1)

Pings(ops) == {i \in 1..Len(ops) : ops[i][1] = "ping"}

C16_PingsTheConfiguredHost ==
  \A p \in Procs :
    LET st == proc[p] IN
    /\ \A i \in Pings(st.ops) :
         st.ops[i][2] = StripPort(Configs[st.settings].REMOTE_IP)
    /\ Cardinality(Pings(st.ops)) <= 1
    /\ st.pc \in {"log_pinged", "log_unable"} => Cardinality(Pings(st.ops)) = 1


\* C17: a bucket sync that comes to its end has issued, in the cycle, one
\* remote query and one write for the bucket and no more, the write right
\* after the query and to the bucket of the same name, with as many points as
\* the response has data rows (none included); the completion event names
\* that number; and the points of the write are in the local bucket.
IsFinished(op) == op[1] = "log" /\ op[3] = "Finished mirroring"

OpsOf(ops, kind, b) == {i \in 1..Len(ops) : ops[i][1] = kind /\ ops[i][2] = b}

RemoteAnswers(st, b) ==
  {k \in 1..Len(st.answers) : st.answers[k][1] = "remote" /\ st.answers[k][2] = b}

C17_OneQueryOneWritePerSync ==
  \A p \in Procs :
    LET st == proc[p] IN
    /\ \A i \in 1..Len(st.ops) :
         IsFinished(st.ops[i]) =>
           LET n == st.ops[i][4]
               b == st.ops[i][5]
           IN /\ i >= 3
              /\ st.ops[i - 1] = <<"write", b, n>>
              /\ st.ops[i - 2][1] = "query_remote" /\ st.ops[i - 2][2] = b
              /\ Cardinality(OpsOf(st.ops, "query_remote", b)) = 1
              /\ Cardinality(OpsOf(st.ops, "write", b)) = 1
              /\ \A k \in RemoteAnswers(st, b) :
                   n = Cardinality(DataRowsOf(st.answers[k][3]))
              /\ Cardinality(RemoteAnswers(st, b)) = 1
    /\ st.pc = "log_finished" =>
         /\ Stored(st.points) \subseteq localDB[BucketName(st)]
         /\ st.ops[Len(st.ops)] = <<"write", BucketName(st), Len(st.points)>>

C17_Witness ==
  LET st == proc[Service] IN
  /\ st.pc = "wait_log" /\ ~st.failed
  /\ In(<<"log", "DEBUG", "Finished mirroring", 1, "b1">>, st.ops)
  /\ In(<<"log", "DEBUG", "Finished mirroring", 0, "b2">>, st.ops)
  /\ In(<<"write", "b2", 0>>, st.ops)
  /\ localDB["b1"] = remoteDB["b1"]


\* C18: every cycle but the first begins when a wait has run to its end, and
\* a wait that runs to its end begins the next cycle (unless ctrl-c ends it);
\* a wait is entered from its announcement of the refresh interval of the
\* settings last loaded, and a cycle pings only after loading its settings.
\* So between the pings of two cycles that follow one another exactly one
\* wait is completed, after a cycle that succeeded, was skipped or failed.
C18_OneWaitBetweenCycles ==
  [][\A p \in Procs :
       LET pc == proc[p].pc
           to == proc'[p].pc
       IN /\ (to = "load_settings" /\ pc # to) => pc \in {"sleep", "log_started"}
          /\ (pc = "sleep" /\ to # pc)
               => to \in {"load_settings", "clear_flag", "crashed"}
          /\ (to = "sleep" /\ pc # to)
               => /\ pc = "wait_log"
                  /\ proc'[p].ops[Len(proc'[p].ops)] =
                       <<"log", "DEBUG", "Waiting for",
                         Configs[proc[p].settings].REFRESH_RATE>>
          /\ (to = "ping" /\ pc # to) => pc = "load_settings"
          /\ (to = "wait_log" /\ pc # to)
               => pc \in {"log_pinged", "log_unable", "log_finished", "log_error"}
    ]_vars

C18_Witness ==
  LET st == proc[Service] IN
  /\ st.pc = "sleep" /\ st.failed /\ st.prev_failed
  /\ Pings(st.ops) # {}
  /\ In(Log("ERROR", "Python error occured"), st.ops)


\* C19: no step of a cycle (settings load, ping, bucket sync, wait, error
\* handling) writes the flag: such a step leaves the flag as it is and issues
\* no write of it; the flag changes only in the force reset (to false), in
\* the set at startup (to true) and in the cancellation handler (to false).
CycleSteps == InTry \cup {"log_error"}

C19_CycleLeavesFlagAlone ==
  [][/\ \A p \in Procs :
          (proc[p].pc \in CycleSteps /\ proc'[p] # proc[p]) =>
            /\ isRunning' = isRunning
            /\ (proc'[p].ops # proc[p].ops /\ proc'[p].ops # <<>>)
                 => proc'[p].ops[Len(proc'[p].ops)][1] # "flag"
     /\ isRunning' # isRunning =>
          \E p \in Procs :
            /\ proc'[p] # proc[p]
            /\ \/ proc[p].pc = "main" /\ proc[p].force_arg = "forceOn" /\ ~isRunning'
               \/ proc[p].pc = "set_flag" /\ isRunning'
               \/ proc[p].pc = "clear_flag" /\ ~isRunning'
    ]_vars

C19_Witness ==
  LET st == proc[Service] IN
  /\ st.pc = "load_settings" /\ st.prev_failed /\ st.synced # {}
  /\ st.passed /\ isRunning


\* C20: when no process is started with "forceOn" and the read, test and
\* write of the flag of each process run with no such step of another
\* process in between, at most one process is inside main_loop without
\* having received a ctrl-c there, and the flag is true whenever one is.
Looping == {p \in Procs : proc[p].pc \in InLoop /\ ~proc[p].cancelled}

C20_FlagTrueWhileOneLoops ==
  /\ Cardinality(Looping) <= 1
  /\ Looping # {} => isRunning

C20_Witness ==
  /\ proc[1].pc = "log_shutdown" /\ proc[1].cancelled
  /\ Looping = {2}
  /\ proc[2].pc = "ping"
  /\ isRunning


====
